---- MODULE Spec2Model ----
(***************************************************************************)
(* A model of stratum/hal/lib/dummy/dummy_sdk.cc: the DummySDK event       *)
(* notification registry (transceiver, node and chassis subscribers) and   *)
(* its service front door (DeviceStatusUpdate, TransceiverEventUpdate,     *)
(* Start, Shutdown).  Every public method is one action; the action        *)
(* records the call, its returned status and the sink writes it made, so   *)
(* that properties of a call can be stated over the state it leaves.       *)
(***************************************************************************)
EXTENDS Integers, Sequences, FiniteSets, TLC

(***************************************************************************)
(* Bounds of the model.                                                    *)
(***************************************************************************)
\* Number of RegisterTransceiverEventWriter calls explored.
MaxXcvrWriters == 3
\* Number of RegisterTransceiverEventWriter calls explored when threads make
\* them concurrently.
MaxXcvrConcCalls == 2
\* Node ids are 1..MaxNodeId.
MaxNodeId == 2
\* Number of successful builder.BuildAndStart() calls explored.
MaxServerBuilds == 2
\* P4Info ids are 1..MaxP4Id.
MaxP4Id == 2

(***************************************************************************)
(* Input domains.                                                          *)
(***************************************************************************)
Priorities == {1, 5}
NodeIds == 1..MaxNodeId
PortIds == {1, 2}
\* shared_ptr<WriterInterface<DummyNodeEventPtr>> values a caller may pass.
NodeWriters == {"nw1", "nw2"}
\* shared_ptr<WriterInterface<GnmiEventPtr>> values a caller may pass;
\* "null" is the empty shared_ptr.
ChassisWriters == {"null", "cw1", "cw2"}
StateUpdates == {"oper_up", "oper_down"}
SourceCases == {"kPort", "kNode", "kPortQueue", "kChassis", "SOURCE_NOT_SET"}
TransceiverEventRequests ==
    { [slot |-> 1, port |-> 1, state |-> "HW_STATE_PRESENT"],
      [slot |-> 1, port |-> 2, state |-> "HW_STATE_NOT_PRESENT"] }
\* The P4Info ids, the names objects are joined by, and the BfRt ids.
P4Ids == 1..MaxP4Id
ObjNames == {"t1", "t2"}
BfRtIds == {1, 7}
Injective(f) == \A a, b \in DOMAIN f : f[a] = f[b] => a = b
PartialInjections(S, T) ==
    { f \in UNION { [D -> T] : D \in SUBSET S } : Injective(f) }
\* A P4Info: its objects' ids, each with its name; ids and names are unique
\* within one P4Info.
P4Infos == PartialInjections(P4Ids, ObjNames)
\* A BfRtInfo handle: null, or the objects of the runtime metadata by name,
\* each with its id; ids are unique within one pipeline.
BfRtInfos ==
    {[null |-> TRUE]} \cup
    { [null |-> FALSE, tables |-> f] : f \in PartialInjections(ObjNames, BfRtIds) }

\* The threads that call DummySDK concurrently.
Threads == {"t1", "t2"}
\* What an access to a container or smart pointer may do while another thread
\* is inside a call on the same object (a data race): take effect as one step
\* of the interleaving, or kill the process.
RaceOutcomes == {"interleaved", "crash"}

\* What dereferencing a null pointer may do: the process dies, or the call
\* on the null object comes back without having delivered anything.
UBOutcomes == {"crash", "continue"}

\* The null value of a unique_ptr (a moved-from writer, external_server_
\* before Start or after a failed BuildAndStart).
nullptr == 0

VARIABLES
    xcvr_event_writers_,         \* std::vector<TransceiverEventWriter>
    xcvr_writer_id_,             \* int
    node_event_notify_writers_,  \* map node id -> writer
    chassis_event_notify_writer_,\* shared_ptr, "null" when empty
    initialized_,                \* bool
    external_server_,            \* nullptr or the number of the built server
    server_builds,               \* servers built by BuildAndStart so far
    serving,                     \* set of built servers not shut down/destroyed
    server_threads,              \* threads created by pthread_create
    crashed,                     \* the process has died
    call,                        \* the last call and its arguments
    ret,                         \* the status the last call returned
    writes,                      \* the sink writes the last call made, in order
    h_xcvr_regs,                 \* history: transceiver registrations, in call order
    h_xcvr_unreg,                \* history: returned ids later passed to
                                 \*          UnregisterTransceiverEventWriter
    h_xcvr_unreg_any,            \* history: UnregisterTransceiverEventWriter was called
    h_node,                      \* history: node id -> writer of the last OK registration
                                 \*          not followed by an OK unregistration
    h_started,                   \* history: a Start() call returned OK
    p4info_to_bfrt_id_,          \* BfrtIdMapper: map P4Info id -> BfRt id
    bfrt_to_p4info_id_,          \* BfrtIdMapper: map BfRt id -> P4Info id
    lock_,                       \* BfrtIdMapper: "free", "shared" or "exclusive"
    push,                        \* the thread calling PushPipelineInfo
    reader,                      \* the thread calling GetBfRtId / GetP4InfoId
    h_mapping,                   \* history: the two maps a completed push must
                                 \*          have left, from its arguments
    thr                          \* the threads making concurrent calls on DummySDK:
                                 \*          where each is in its call, its
                                 \*          arguments, locals and returned status

vars == << xcvr_event_writers_, xcvr_writer_id_, node_event_notify_writers_,
           chassis_event_notify_writer_, initialized_, external_server_,
           server_builds, serving, server_threads, crashed, call, ret, writes,
           h_xcvr_regs, h_xcvr_unreg, h_xcvr_unreg_any, h_node, h_started,
           p4info_to_bfrt_id_, bfrt_to_p4info_id_, lock_, push, reader, h_mapping,
           thr >>

xcvr_vars == << xcvr_event_writers_, xcvr_writer_id_ >>
node_vars == << node_event_notify_writers_ >>
chassis_vars == << chassis_event_notify_writer_ >>
server_vars == << initialized_, external_server_, server_builds, serving,
                  server_threads >>
hist_vars == << h_xcvr_regs, h_xcvr_unreg, h_xcvr_unreg_any, h_node, h_started >>

mapper_vars == << p4info_to_bfrt_id_, bfrt_to_p4info_id_, lock_, push, reader,
                 h_mapping >>
\* The state of DummySDK and of the calls made on it.
sdk_vars == << xcvr_vars, node_vars, chassis_vars, server_vars, crashed, call, ret,
              writes, hist_vars, thr >>

\* A std::map with no entry.
EmptyMap == [n \in {} |-> "none"]

\* A flat_hash_map of ids with no entry.
EmptyIdMap == [n \in {} |-> 0]

\* DummySDK::DummySDK(): initialized_(false), xcvr_writer_id_(0); the
\* containers and smart pointers are default constructed.
Init ==
    /\ xcvr_event_writers_ = << >>
    /\ xcvr_writer_id_ = 0
    /\ node_event_notify_writers_ = EmptyMap
    /\ chassis_event_notify_writer_ = "null"
    /\ initialized_ = FALSE
    /\ external_server_ = nullptr
    /\ server_builds = 0
    /\ serving = {}
    /\ server_threads = 0
    /\ crashed = FALSE
    /\ call = [op |-> "DummySDK"]
    /\ ret = "OK"
    /\ writes = << >>
    /\ h_xcvr_regs = << >>
    /\ h_xcvr_unreg = {}
    /\ h_xcvr_unreg_any = FALSE
    /\ h_node = [n \in NodeIds |-> "none"]
    /\ h_started = FALSE
    /\ p4info_to_bfrt_id_ = EmptyIdMap
    /\ bfrt_to_p4info_id_ = EmptyIdMap
    /\ lock_ = "free"
    /\ push = [pc |-> "idle", ret |-> "none"]
    /\ reader = [pc |-> "idle", ret |-> [status |-> "none", value |-> 0]]
    /\ h_mapping = [p4info_to_bfrt |-> EmptyIdMap, bfrt_to_p4info |-> EmptyIdMap]
    /\ thr = [t \in Threads |-> [pc |-> "idle", ret |-> "none"]]

(***************************************************************************)
(* Transceiver event writers.                                              *)
(***************************************************************************)

\* PhalInterface::TransceiverEventWriterComp: higher priority first.
TransceiverEventWriterComp(a, b) == a.priority > b.priority

\* The permutations of 1..n.
Perms(n) == { p \in [1..n -> 1..n] : \A i, j \in 1..n : p[i] = p[j] => i = j }

\* std::sort(begin, end, comp): the result is a permutation of the input in
\* which no element is ordered before one that precedes it.  std::sort is
\* not a stable sort: the order of elements equivalent under comp is
\* unspecified, so every such permutation is a possible result.
SortOutcomes(s) ==
    { t \in { [i \in 1..Len(s) |-> s[p[i]]] : p \in Perms(Len(s)) } :
        \A i, j \in 1..Len(t) : i < j => ~TransceiverEventWriterComp(t[j], t[i]) }

\* dummy_sdk.h FindXcvrById: the predicate matches an entry by its id.
FindXcvrById(id, e) == e.id = id

\* Mutant of RemoveIf: the single-iterator erase(remove_if(...)), which erases
\* the one entry at the returned iterator, the last entry when none matched.
RemoveIfEraseOne(s, id) ==
    LET Keep(e) == ~FindXcvrById(id, e)
        kept == SelectSeq(s, Keep)
    IN  IF Len(kept) = Len(s) THEN SubSeq(s, 1, Len(s) - 1) ELSE kept

\* std::remove_if(begin, end, pred) with its returned iterator discarded (no
\* erase): the entries not matching are move-assigned to the front in order,
\* the vector keeps its size, and the tail keeps what was there: a matching
\* entry untouched, a moved-from entry with a null writer.
RemoveIf(s, id) ==
    LET Keep(e) == ~FindXcvrById(id, e)
        kept == SelectSeq(s, Keep)
    IN  [p \in 1..Len(s) |->
            IF p <= Len(kept) THEN kept[p]
            ELSE IF FindXcvrById(id, s[p]) THEN s[p]
            ELSE [s[p] EXCEPT !.writer = nullptr]]

\* The loop of TransceiverEventUpdate over a list: the writes made, and
\* whether the process died on a null writer.  `failed` is the set of writers
\* whose Write(event, kDefaultEventWriteTimeout) fails or times out; the
\* status Write returns is discarded.
RECURSIVE FanOut(_, _, _, _)
FanOut(list, event, ub, failed) ==
    IF list = << >> THEN [writes |-> << >>, crashed |-> FALSE]
    ELSE IF Head(list).writer = nullptr
         THEN IF ub = "crash"
              THEN [writes |-> << >>, crashed |-> TRUE]
              ELSE FanOut(Tail(list), event, ub, failed)
         ELSE LET rest == FanOut(Tail(list), event, ub, failed)
              IN  [writes |-> << [xcvr |-> Head(list).writer, event |-> event,
                                  ok |-> Head(list).writer \notin failed] >>
                                 \o rest.writes,
                   crashed |-> rest.crashed]

RegisterTransceiverEventWriter(priority) ==
    /\ xcvr_writer_id_ < MaxXcvrWriters
    /\ ~crashed
    /\ UNCHANGED << mapper_vars, thr >>
    /\ LET id == xcvr_writer_id_ + 1
           \* the unique_ptr passed by this call: a fresh writer
           writer == Len(h_xcvr_regs) + 1
           xcvr_event_writer == [writer |-> writer, priority |-> priority, id |-> id]
       IN  /\ xcvr_writer_id_' = id
           /\ \E sorted \in SortOutcomes(Append(xcvr_event_writers_, xcvr_event_writer)) :
                  xcvr_event_writers_' = sorted
           /\ h_xcvr_regs' = Append(h_xcvr_regs,
                                    [id |-> id, priority |-> priority, writer |-> writer])
    /\ call' = [op |-> "RegisterTransceiverEventWriter", priority |-> priority]
    /\ ret' = "OK"
    /\ writes' = << >>
    /\ UNCHANGED << node_vars, chassis_vars, server_vars, crashed, h_xcvr_unreg,
                    h_xcvr_unreg_any, h_node, h_started >>

\* Mutant of UnregisterTransceiverEventWriter: the id counter is given back
\* when a subscriber is unregistered, so the next registration reuses an id.
UnregisterTransceiverEventWriterReuseId(id) ==
    /\ ~crashed
    /\ UNCHANGED << mapper_vars, thr >>
    /\ xcvr_event_writers_' = RemoveIf(xcvr_event_writers_, id)
    /\ xcvr_writer_id_' = IF id \in 1..xcvr_writer_id_
                          THEN xcvr_writer_id_ - 1 ELSE xcvr_writer_id_
    /\ h_xcvr_unreg' = h_xcvr_unreg \cup ({id} \cap 1..xcvr_writer_id_)
    /\ h_xcvr_unreg_any' = TRUE
    /\ call' = [op |-> "UnregisterTransceiverEventWriter", id |-> id]
    /\ ret' = "OK"
    /\ writes' = << >>
    /\ UNCHANGED << node_vars, chassis_vars, server_vars, crashed,
                    h_xcvr_regs, h_node, h_started >>

UnregisterTransceiverEventWriter(id) ==
    /\ ~crashed
    /\ UNCHANGED << mapper_vars, thr >>
    /\ xcvr_event_writers_' = RemoveIf(xcvr_event_writers_, id)
    /\ h_xcvr_unreg' = h_xcvr_unreg \cup ({id} \cap 1..xcvr_writer_id_)
    /\ h_xcvr_unreg_any' = TRUE
    /\ call' = [op |-> "UnregisterTransceiverEventWriter", id |-> id]
    /\ ret' = "OK"
    /\ writes' = << >>
    /\ UNCHANGED << xcvr_writer_id_, node_vars, chassis_vars, server_vars, crashed,
                    h_xcvr_regs, h_node, h_started >>

TransceiverEventUpdate(request, ub, failed) ==
    /\ ~crashed
    /\ UNCHANGED << mapper_vars, thr >>
    /\ LET event == [slot |-> request.slot, port |-> request.port,
                     state |-> request.state]
           out == FanOut(xcvr_event_writers_, event, ub, failed)
       IN  /\ writes' = out.writes
           /\ crashed' = out.crashed
           /\ ret' = IF out.crashed THEN "NO_RETURN" ELSE "OK"
    /\ call' = [op |-> "TransceiverEventUpdate", request |-> request]
    /\ UNCHANGED << xcvr_vars, node_vars, chassis_vars, server_vars, hist_vars >>

(***************************************************************************)
(* Node event writers.                                                     *)
(***************************************************************************)

\* Mutant of HandlePortStatusUpdate: the event's node id and port id are
\* swapped.
HandlePortStatusUpdateSwapped(node_id, port_id, state_update) ==
    IF node_id \notin DOMAIN node_event_notify_writers_
    THEN [ret |-> "NOT_FOUND", writes |-> << >>]
    ELSE [ret |-> "OK",
          writes |-> << [node |-> node_event_notify_writers_[node_id],
                         event |-> [node_id |-> port_id, port_id |-> node_id,
                                    state_update |-> state_update]] >>]

\* What HandlePortStatusUpdate returns and writes: NOT_FOUND and nothing when
\* find(node_id) is end(), otherwise one DummyNodeEvent written to the writer
\* found.
HandlePortStatusUpdate(node_id, port_id, state_update) ==
    IF node_id \notin DOMAIN node_event_notify_writers_
    THEN [ret |-> "NOT_FOUND", writes |-> << >>]
    ELSE [ret |-> "OK",
          writes |-> << [node |-> node_event_notify_writers_[node_id],
                         event |-> [node_id |-> node_id, port_id |-> port_id,
                                    state_update |-> state_update]] >>]

\* A direct call of HandlePortStatusUpdate.
PortStatusUpdate(node_id, port_id, state_update) ==
    /\ ~crashed
    /\ UNCHANGED << mapper_vars, thr >>
    /\ LET out == HandlePortStatusUpdate(node_id, port_id, state_update)
       IN  /\ ret' = out.ret
           /\ writes' = out.writes
    /\ call' = [op |-> "HandlePortStatusUpdate", node_id |-> node_id,
                port_id |-> port_id, state_update |-> state_update]
    /\ UNCHANGED << xcvr_vars, node_vars, chassis_vars, server_vars, crashed, hist_vars >>

\* Mutant of DeviceStatusUpdateOut: the kNode case falls into the kPort case.
DeviceStatusUpdateOutNodeToo(source_case, node_id, port_id, state_update) ==
    IF source_case \in {"kPort", "kNode"}
    THEN HandlePortStatusUpdate(node_id, port_id, state_update)
    ELSE [ret |-> "UNIMPLEMENTED", writes |-> << >>]

\* What DeviceStatusUpdate returns and writes, by the request's source case.
DeviceStatusUpdateOut(source_case, node_id, port_id, state_update) ==
    IF source_case = "kPort"
    THEN HandlePortStatusUpdate(node_id, port_id, state_update)
    ELSE [ret |-> "UNIMPLEMENTED", writes |-> << >>]

\* request->source() is a port {node_id, port_id} when source_case is kPort;
\* the ids of the other cases are carried along and not used.
DeviceStatusUpdate(source_case, node_id, port_id, state_update) ==
    /\ ~crashed
    /\ UNCHANGED << mapper_vars, thr >>
    /\ LET out == DeviceStatusUpdateOut(source_case, node_id, port_id, state_update)
       IN  /\ ret' = out.ret
           /\ writes' = out.writes
    /\ call' = [op |-> "DeviceStatusUpdate", source_case |-> source_case,
                node_id |-> node_id, port_id |-> port_id,
                state_update |-> state_update]
    /\ UNCHANGED << xcvr_vars, node_vars, chassis_vars, server_vars, crashed, hist_vars >>

\* Mutant of RegisterNodeEventNotifyWriter: no check for an existing entry,
\* node_event_notify_writers_[node_id] = writer.
RegisterNodeEventNotifyWriterOverwrite(node_id, writer) ==
    /\ ~crashed
    /\ UNCHANGED << mapper_vars, thr >>
    /\ node_event_notify_writers_' =
           [n \in DOMAIN node_event_notify_writers_ \cup {node_id} |->
               IF n = node_id THEN writer ELSE node_event_notify_writers_[n]]
    /\ ret' = "OK"
    /\ h_node' = [h_node EXCEPT ![node_id] = writer]
    /\ call' = [op |-> "RegisterNodeEventNotifyWriter", node_id |-> node_id,
                writer |-> writer]
    /\ writes' = << >>
    /\ UNCHANGED << xcvr_vars, chassis_vars, server_vars, crashed, h_xcvr_regs,
                    h_xcvr_unreg, h_xcvr_unreg_any, h_started >>

RegisterNodeEventNotifyWriter(node_id, writer) ==
    /\ ~crashed
    /\ UNCHANGED << mapper_vars, thr >>
    /\ IF node_id \in DOMAIN node_event_notify_writers_
       THEN /\ ret' = "ALREADY_EXISTS"
            /\ UNCHANGED node_event_notify_writers_
       ELSE /\ node_event_notify_writers_' =
                   [n \in DOMAIN node_event_notify_writers_ \cup {node_id} |->
                       IF n = node_id THEN writer ELSE node_event_notify_writers_[n]]
            /\ ret' = "OK"
    /\ h_node' = IF ret' = "OK" THEN [h_node EXCEPT ![node_id] = writer] ELSE h_node
    /\ call' = [op |-> "RegisterNodeEventNotifyWriter", node_id |-> node_id,
                writer |-> writer]
    /\ writes' = << >>
    /\ UNCHANGED << xcvr_vars, chassis_vars, server_vars, crashed, h_xcvr_regs,
                    h_xcvr_unreg, h_xcvr_unreg_any, h_started >>

\* Mutant of UnregisterNodeEventNotifyWriter: the erase is missing.
UnregisterNodeEventNotifyWriterNoErase(node_id) ==
    /\ ~crashed
    /\ UNCHANGED << mapper_vars, thr >>
    /\ ret' = IF node_id \notin DOMAIN node_event_notify_writers_
              THEN "NOT_FOUND" ELSE "OK"
    /\ UNCHANGED node_event_notify_writers_
    /\ h_node' = IF ret' = "OK" THEN [h_node EXCEPT ![node_id] = "none"] ELSE h_node
    /\ call' = [op |-> "UnregisterNodeEventNotifyWriter", node_id |-> node_id]
    /\ writes' = << >>
    /\ UNCHANGED << xcvr_vars, chassis_vars, server_vars, crashed, h_xcvr_regs,
                    h_xcvr_unreg, h_xcvr_unreg_any, h_started >>

UnregisterNodeEventNotifyWriter(node_id) ==
    /\ ~crashed
    /\ UNCHANGED << mapper_vars, thr >>
    /\ IF node_id \notin DOMAIN node_event_notify_writers_
       THEN /\ ret' = "NOT_FOUND"
            /\ UNCHANGED node_event_notify_writers_
       ELSE /\ node_event_notify_writers_' =
                   [n \in DOMAIN node_event_notify_writers_ \ {node_id} |->
                       node_event_notify_writers_[n]]
            /\ ret' = "OK"
    /\ h_node' = IF ret' = "OK" THEN [h_node EXCEPT ![node_id] = "none"] ELSE h_node
    /\ call' = [op |-> "UnregisterNodeEventNotifyWriter", node_id |-> node_id]
    /\ writes' = << >>
    /\ UNCHANGED << xcvr_vars, chassis_vars, server_vars, crashed, h_xcvr_regs,
                    h_xcvr_unreg, h_xcvr_unreg_any, h_started >>

(***************************************************************************)
(* Chassis event writer.                                                   *)
(***************************************************************************)

\* The guard tests the argument `writer`, not chassis_event_notify_writer_.
RegisterChassisEventNotifyWriter(writer) ==
    /\ ~crashed
    /\ UNCHANGED << mapper_vars, thr >>
    /\ IF writer # "null"
       THEN /\ ret' = "ERR_INTERNAL"
            /\ UNCHANGED chassis_event_notify_writer_
       ELSE /\ chassis_event_notify_writer_' = writer
            /\ ret' = "OK"
    /\ call' = [op |-> "RegisterChassisEventNotifyWriter", writer |-> writer]
    /\ writes' = << >>
    /\ UNCHANGED << xcvr_vars, node_vars, server_vars, crashed, hist_vars >>

UnregisterChassisEventNotifyWriter ==
    /\ ~crashed
    /\ UNCHANGED << mapper_vars, thr >>
    /\ chassis_event_notify_writer_' = "null"
    /\ ret' = "OK"
    /\ call' = [op |-> "UnregisterChassisEventNotifyWriter"]
    /\ writes' = << >>
    /\ UNCHANGED << xcvr_vars, node_vars, server_vars, crashed, hist_vars >>

(***************************************************************************)
(* Start and Shutdown.                                                     *)
(***************************************************************************)

\* Mutant of Start: initialized_ is tested after BuildAndStart instead of
\* first, so a repeated Start replaces the server before it fails.
StartLateGuard(build_ok, thread_ok) ==
    /\ ~crashed
    /\ UNCHANGED << mapper_vars, thr >>
    /\ server_builds < MaxServerBuilds
    /\ IF ~build_ok
       THEN /\ external_server_' = nullptr
            /\ serving' = serving \ {external_server_}
            /\ ret' = "ERR_INTERNAL"
            /\ UNCHANGED << initialized_, server_builds, server_threads >>
       ELSE /\ server_builds' = server_builds + 1
            /\ external_server_' = server_builds + 1
            /\ serving' = (serving \ {external_server_}) \cup {server_builds + 1}
            /\ IF initialized_
               THEN /\ ret' = "ERR_ABORTED"
                    /\ UNCHANGED << initialized_, server_threads >>
               ELSE IF ~thread_ok
                    THEN /\ ret' = "ERR_INTERNAL"
                         /\ UNCHANGED << initialized_, server_threads >>
                    ELSE /\ server_threads' = server_threads + 1
                         /\ initialized_' = TRUE
                         /\ ret' = "OK"
    /\ h_started' = (h_started \/ ret' = "OK")
    /\ call' = [op |-> "Start", build_ok |-> build_ok, thread_ok |-> thread_ok]
    /\ writes' = << >>
    /\ UNCHANGED << xcvr_vars, node_vars, chassis_vars, crashed, h_xcvr_regs,
                    h_xcvr_unreg, h_xcvr_unreg_any, h_node >>

\* build_ok: builder.BuildAndStart() returned a server; thread_ok:
\* pthread_create returned 0.  Assigning external_server_ destroys the server
\* it held before.
Start(build_ok, thread_ok) ==
    /\ ~crashed
    /\ UNCHANGED << mapper_vars, thr >>
    /\ IF initialized_
       THEN /\ ret' = "ERR_ABORTED"
            /\ UNCHANGED server_vars
       ELSE /\ server_builds < MaxServerBuilds
            /\ IF ~build_ok
               THEN /\ external_server_' = nullptr
                    /\ serving' = serving \ {external_server_}
                    /\ ret' = "ERR_INTERNAL"
                    /\ UNCHANGED << initialized_, server_builds, server_threads >>
               ELSE /\ server_builds' = server_builds + 1
                    /\ external_server_' = server_builds + 1
                    /\ serving' = (serving \ {external_server_}) \cup {server_builds + 1}
                    /\ IF ~thread_ok
                       THEN /\ ret' = "ERR_INTERNAL"
                            /\ UNCHANGED << initialized_, server_threads >>
                       ELSE /\ server_threads' = server_threads + 1
                            /\ initialized_' = TRUE
                            /\ ret' = "OK"
    /\ h_started' = (h_started \/ ret' = "OK")
    /\ call' = [op |-> "Start", build_ok |-> build_ok, thread_ok |-> thread_ok]
    /\ writes' = << >>
    /\ UNCHANGED << xcvr_vars, node_vars, chassis_vars, crashed, h_xcvr_regs,
                    h_xcvr_unreg, h_xcvr_unreg_any, h_node >>

\* external_server_->Shutdown(now): on a null external_server_ this is a null
\* pointer dereference.
Shutdown(ub) ==
    /\ ~crashed
    /\ UNCHANGED << mapper_vars, thr >>
    /\ IF external_server_ = nullptr
       THEN /\ crashed' = (ub = "crash")
            /\ ret' = IF ub = "crash" THEN "NO_RETURN" ELSE "OK"
            /\ UNCHANGED serving
       ELSE /\ serving' = serving \ {external_server_}
            /\ ret' = "OK"
            /\ crashed' = crashed
    /\ call' = [op |-> "Shutdown"]
    /\ writes' = << >>
    /\ UNCHANGED << xcvr_vars, node_vars, chassis_vars, initialized_, external_server_,
                    server_builds, server_threads, hist_vars >>

(***************************************************************************)
(* BfrtIdMapper (bfrt_id_mapper.h).  The header declares the maps, lock_    *)
(* and the methods with their lock annotations; the method bodies follow    *)
(* the design: PushPipelineInfo holds lock_ exclusively for the whole       *)
(* rebuild and the Get lookups hold it shared.                              *)
(***************************************************************************)

\* flat_hash_map assignment m[k] = v.
MapPut(m, k, v) == [x \in DOMAIN m \cup {k} |-> IF x = k THEN v ELSE m[x]]

\* The least element: the next object in P4Info order.
Min(S) == CHOOSE x \in S : \A y \in S : x <= y

\* The two maps a push with these arguments must leave: the objects present
\* in both sources under the same name, in both directions.
ExpectedMapping(p4info, bfrt_info) ==
    LET matched == { p \in DOMAIN p4info : p4info[p] \in DOMAIN bfrt_info.tables }
        bf(p) == bfrt_info.tables[p4info[p]]
    IN  [p4info_to_bfrt |-> [p \in matched |-> bf(p)],
         bfrt_to_p4info |-> [b \in { bf(p) : p \in matched } |->
                                CHOOSE p \in matched : bf(p) = b]]

\* GetBfRtId: the point lookup in p4info_to_bfrt_id_.
GetBfRtId(p4info_id) ==
    IF p4info_id \in DOMAIN p4info_to_bfrt_id_
    THEN [status |-> "OK", value |-> p4info_to_bfrt_id_[p4info_id]]
    ELSE [status |-> "NOT_FOUND", value |-> 0]

\* GetP4InfoId: the point lookup in bfrt_to_p4info_id_.
GetP4InfoId(bfrt_id) ==
    IF bfrt_id \in DOMAIN bfrt_to_p4info_id_
    THEN [status |-> "OK", value |-> bfrt_to_p4info_id_[bfrt_id]]
    ELSE [status |-> "NOT_FOUND", value |-> 0]

\* PushPipelineInfo is called.
PushCall(p4info, bfrt_info) ==
    /\ push.pc = "idle"
    /\ push' = [pc |-> "acquire", p4info |-> p4info, bfrt_info |-> bfrt_info,
                ret |-> "none"]
    /\ UNCHANGED << sdk_vars, p4info_to_bfrt_id_, bfrt_to_p4info_id_, lock_, reader,
                    h_mapping >>

\* Mutant of PushLock: the rebuild starts without waiting for lock_.
PushLockNoWait ==
    /\ push.pc = "acquire"
    /\ push' = [push EXCEPT !.pc = "locked"]
    /\ UNCHANGED << sdk_vars, p4info_to_bfrt_id_, bfrt_to_p4info_id_, lock_, reader,
                    h_mapping >>

\* absl::WriterMutexLock l(&lock_): waits until no reader holds lock_.
PushLock ==
    /\ push.pc = "acquire"
    /\ lock_ = "free"
    /\ lock_' = "exclusive"
    /\ push' = [push EXCEPT !.pc = "locked"]
    /\ UNCHANGED << sdk_vars, p4info_to_bfrt_id_, bfrt_to_p4info_id_, reader,
                    h_mapping >>

\* An unusable BfRtInfo handle fails the push with NOT_FOUND and leaves the
\* maps; otherwise the rebuild starts from empty maps.
PushClear ==
    /\ push.pc = "locked"
    /\ IF push.bfrt_info.null
       THEN /\ push' = [pc |-> "idle", ret |-> "NOT_FOUND"]
            /\ lock_' = IF lock_ = "exclusive" THEN "free" ELSE lock_
            /\ UNCHANGED << p4info_to_bfrt_id_, bfrt_to_p4info_id_ >>
       ELSE /\ p4info_to_bfrt_id_' = EmptyIdMap
            /\ bfrt_to_p4info_id_' = EmptyIdMap
            /\ push' = [push EXCEPT !.pc = "build"] @@ [todo |-> DOMAIN push.p4info]
            /\ UNCHANGED lock_
    /\ UNCHANGED << sdk_vars, reader, h_mapping >>

\* Mutant of BuildMapping: only the BfRt -> P4Info direction is inserted.
BuildMappingOneDirection ==
    /\ push.pc = "build"
    /\ push.todo # {}
    /\ LET p4info_id == Min(push.todo)
           p4info_name == push.p4info[p4info_id]
       IN  IF p4info_name \in DOMAIN push.bfrt_info.tables
           THEN /\ bfrt_to_p4info_id_' =
                       MapPut(bfrt_to_p4info_id_, push.bfrt_info.tables[p4info_name],
                              p4info_id)
                /\ push' = [push EXCEPT !.todo = push.todo \ {p4info_id}]
           ELSE /\ push' = [push EXCEPT !.todo = push.todo \ {p4info_id}]
                /\ UNCHANGED bfrt_to_p4info_id_
    /\ UNCHANGED << sdk_vars, p4info_to_bfrt_id_, lock_, reader, h_mapping >>

\* BuildMapping(p4info_id, p4info_name, bfrt_info) for the next P4Info object:
\* when the runtime metadata has an object of that name, its id is inserted
\* in bfrt_to_p4info_id_ (and then, in BuildMappingReverse, in
\* p4info_to_bfrt_id_); an object without counterpart is omitted.
BuildMapping ==
    /\ push.pc = "build"
    /\ push.todo # {}
    /\ LET p4info_id == Min(push.todo)
           p4info_name == push.p4info[p4info_id]
       IN  IF p4info_name \in DOMAIN push.bfrt_info.tables
           THEN /\ bfrt_to_p4info_id_' =
                       MapPut(bfrt_to_p4info_id_, push.bfrt_info.tables[p4info_name],
                              p4info_id)
                /\ push' = [push EXCEPT !.pc = "build_reverse"]
           ELSE /\ push' = [push EXCEPT !.todo = push.todo \ {p4info_id}]
                /\ UNCHANGED bfrt_to_p4info_id_
    /\ UNCHANGED << sdk_vars, p4info_to_bfrt_id_, lock_, reader, h_mapping >>

BuildMappingReverse ==
    /\ push.pc = "build_reverse"
    /\ LET p4info_id == Min(push.todo)
           p4info_name == push.p4info[p4info_id]
       IN  /\ p4info_to_bfrt_id_' =
                  MapPut(p4info_to_bfrt_id_, p4info_id,
                         push.bfrt_info.tables[p4info_name])
           /\ push' = [push EXCEPT !.pc = "build", !.todo = push.todo \ {p4info_id}]
    /\ UNCHANGED << sdk_vars, bfrt_to_p4info_id_, lock_, reader, h_mapping >>

\* The rebuild is complete: lock_ is released and the push returns OK.
PushReturn ==
    /\ push.pc = "build"
    /\ push.todo = {}
    /\ lock_' = IF lock_ = "exclusive" THEN "free" ELSE lock_
    /\ push' = [pc |-> "idle", ret |-> "OK"]
    /\ h_mapping' = ExpectedMapping(push.p4info, push.bfrt_info)
    /\ UNCHANGED << sdk_vars, p4info_to_bfrt_id_, bfrt_to_p4info_id_, reader >>

\* GetBfRtId(id) or GetP4InfoId(id) is called.
GetCall(method, id) ==
    /\ reader.pc = "idle"
    /\ reader' = [pc |-> "acquire", method |-> method, id |-> id,
                  ret |-> [status |-> "none", value |-> 0]]
    /\ UNCHANGED << sdk_vars, p4info_to_bfrt_id_, bfrt_to_p4info_id_, lock_, push,
                    h_mapping >>

\* absl::ReaderMutexLock l(&lock_): waits until no writer holds lock_.
GetLock ==
    /\ reader.pc = "acquire"
    /\ lock_ # "exclusive"
    /\ lock_' = "shared"
    /\ reader' = [reader EXCEPT !.pc = "locked"]
    /\ UNCHANGED << sdk_vars, p4info_to_bfrt_id_, bfrt_to_p4info_id_, push, h_mapping >>

\* The lookup is made, lock_ is released and the result returned.
GetReturn ==
    /\ reader.pc = "locked"
    /\ reader' = [reader EXCEPT !.pc = "idle",
                                !.ret = IF reader.method = "GetBfRtId"
                                        THEN GetBfRtId(reader.id)
                                        ELSE GetP4InfoId(reader.id)]
    /\ lock_' = "free"
    /\ UNCHANGED << sdk_vars, p4info_to_bfrt_id_, bfrt_to_p4info_id_, push, h_mapping >>

(***************************************************************************)
(* Concurrent calls.  No method of dummy_sdk.cc acquires sdk_lock_,         *)
(* xcvr_event_lock_ or device_event_lock_, so the statements of calls made  *)
(* by different threads interleave.  Each action below is one statement of  *)
(* a call made by thread t.                                                 *)
(***************************************************************************)

\* Another thread than t is inside a call.
OtherInCall(t) == \E u \in Threads \ {t} : thr[u].pc # "idle"

\* The outcomes of a racing access by thread t.
RaceOutcomesFor(t) == IF OtherInCall(t) THEN RaceOutcomes ELSE {"interleaved"}

\* RegisterNodeEventNotifyWriter(node_id, writer) is called by thread t.
NodeRegCall(t, node_id, writer) ==
    /\ ~crashed
    /\ thr[t].pc = "idle"
    /\ thr' = [thr EXCEPT ![t] =
                  [pc |-> "reg_find", node_id |-> node_id, writer |-> writer,
                   \* history: the node id had no entry when the call was made
                   absent_at_call |-> node_id \notin DOMAIN node_event_notify_writers_,
                   ret |-> "none"]]
    /\ UNCHANGED << xcvr_vars, node_vars, chassis_vars, server_vars, crashed, call, ret,
                    writes, hist_vars, mapper_vars >>

\* if (find(node_id) != end()) return ALREADY_EXISTS;
NodeRegFind(t) ==
    /\ ~crashed
    /\ thr[t].pc = "reg_find"
    /\ thr' = [thr EXCEPT ![t] =
                  IF thr[t].node_id \in DOMAIN node_event_notify_writers_
                  THEN [@ EXCEPT !.pc = "idle", !.ret = "ALREADY_EXISTS"]
                  ELSE [@ EXCEPT !.pc = "reg_emplace"]]
    /\ UNCHANGED << xcvr_vars, node_vars, chassis_vars, server_vars, crashed, call, ret,
                    writes, hist_vars, mapper_vars >>

\* emplace(node_id, writer); return OkStatus().  emplace inserts nothing when
\* the key has an entry.
NodeRegEmplace(t, race) ==
    /\ ~crashed
    /\ thr[t].pc = "reg_emplace"
    /\ race \in RaceOutcomesFor(t)
    /\ IF race = "crash"
       THEN /\ crashed' = TRUE
            /\ UNCHANGED << node_event_notify_writers_, thr >>
       ELSE /\ node_event_notify_writers_' =
                   IF thr[t].node_id \in DOMAIN node_event_notify_writers_
                   THEN node_event_notify_writers_
                   ELSE [n \in DOMAIN node_event_notify_writers_ \cup {thr[t].node_id} |->
                            IF n = thr[t].node_id THEN thr[t].writer
                            ELSE node_event_notify_writers_[n]]
            /\ thr' = [thr EXCEPT ![t] = [@ EXCEPT !.pc = "idle", !.ret = "OK"]]
            /\ UNCHANGED crashed
    /\ UNCHANGED << xcvr_vars, chassis_vars, server_vars, call, ret, writes, hist_vars,
                    mapper_vars >>

\* Start() is called by thread t.
StartCall(t) ==
    /\ ~crashed
    /\ thr[t].pc = "idle"
    /\ thr' = [thr EXCEPT ![t] = [pc |-> "start_check", ret |-> "none"]]
    /\ UNCHANGED << xcvr_vars, node_vars, chassis_vars, server_vars, crashed, call, ret,
                    writes, hist_vars, mapper_vars >>

\* if (initialized_) return MAKE_ERROR(ERR_ABORTED);
StartCheck(t) ==
    /\ ~crashed
    /\ thr[t].pc = "start_check"
    /\ thr' = [thr EXCEPT ![t] =
                  IF initialized_ THEN [pc |-> "idle", ret |-> "ERR_ABORTED"]
                  ELSE [@ EXCEPT !.pc = "start_build"]]
    /\ UNCHANGED << xcvr_vars, node_vars, chassis_vars, server_vars, crashed, call, ret,
                    writes, hist_vars, mapper_vars >>

\* external_server_ = builder.BuildAndStart();  The assignment destroys the
\* server external_server_ held before.
StartBuild(t, build_ok, race) ==
    /\ ~crashed
    /\ thr[t].pc = "start_build"
    /\ race \in RaceOutcomesFor(t)
    /\ server_builds < MaxServerBuilds
    /\ IF race = "crash"
       THEN /\ crashed' = TRUE
            /\ UNCHANGED << server_vars, thr >>
       ELSE /\ IF build_ok
               THEN /\ server_builds' = server_builds + 1
                    /\ external_server_' = server_builds + 1
                    /\ serving' = (serving \ {external_server_}) \cup {server_builds + 1}
               ELSE /\ external_server_' = nullptr
                    /\ serving' = serving \ {external_server_}
                    /\ UNCHANGED server_builds
            /\ thr' = [thr EXCEPT ![t] = [@ EXCEPT !.pc = "start_nullcheck"]]
            /\ UNCHANGED << initialized_, server_threads, crashed >>
    /\ UNCHANGED << xcvr_vars, node_vars, chassis_vars, call, ret, writes, hist_vars,
                    mapper_vars >>

\* if (external_server_ == nullptr) return MAKE_ERROR(ERR_INTERNAL);
StartNullCheck(t) ==
    /\ ~crashed
    /\ thr[t].pc = "start_nullcheck"
    /\ thr' = [thr EXCEPT ![t] =
                  IF external_server_ = nullptr
                  THEN [pc |-> "idle", ret |-> "ERR_INTERNAL"]
                  ELSE [@ EXCEPT !.pc = "start_spawn"]]
    /\ UNCHANGED << xcvr_vars, node_vars, chassis_vars, server_vars, crashed, call, ret,
                    writes, hist_vars, mapper_vars >>

\* int ret = pthread_create(...); if (ret != 0) return MAKE_ERROR(ERR_INTERNAL);
StartSpawn(t, thread_ok) ==
    /\ ~crashed
    /\ thr[t].pc = "start_spawn"
    /\ IF thread_ok
       THEN /\ server_threads' = server_threads + 1
            /\ thr' = [thr EXCEPT ![t] = [@ EXCEPT !.pc = "start_set"]]
       ELSE /\ thr' = [thr EXCEPT ![t] = [pc |-> "idle", ret |-> "ERR_INTERNAL"]]
            /\ UNCHANGED server_threads
    /\ UNCHANGED << initialized_, external_server_, server_builds, serving >>
    /\ UNCHANGED << xcvr_vars, node_vars, chassis_vars, crashed, call, ret, writes,
                    hist_vars, mapper_vars >>

\* initialized_ = true; return OkStatus();
StartSet(t) ==
    /\ ~crashed
    /\ thr[t].pc = "start_set"
    /\ initialized_' = TRUE
    /\ h_started' = TRUE
    /\ thr' = [thr EXCEPT ![t] = [pc |-> "idle", ret |-> "OK"]]
    /\ UNCHANGED << external_server_, server_builds, serving, server_threads >>
    /\ UNCHANGED << xcvr_vars, node_vars, chassis_vars, crashed, call, ret, writes,
                    h_xcvr_regs, h_xcvr_unreg, h_xcvr_unreg_any, h_node, mapper_vars >>

\* The threads inside a call.
InCall == { t \in Threads : thr[t].pc # "idle" }

\* RegisterTransceiverEventWriter(writer, priority) is called by thread t.
\* The writer is a fresh unique_ptr: the number of the call.
XcvrRegCall(t, priority) ==
    /\ ~crashed
    /\ thr[t].pc = "idle"
    /\ Len(h_xcvr_regs) + Cardinality(InCall) < MaxXcvrConcCalls
    /\ thr' = [thr EXCEPT ![t] =
                  [pc |-> "xreg_load", priority |-> priority,
                   writer |-> Len(h_xcvr_regs) + Cardinality(InCall) + 1,
                   ret |-> "none"]]
    /\ UNCHANGED << xcvr_vars, node_vars, chassis_vars, server_vars, crashed, call, ret,
                    writes, hist_vars, mapper_vars >>

\* ++xcvr_writer_id_ on a plain int: the load ...
XcvrRegLoad(t) ==
    /\ ~crashed
    /\ thr[t].pc = "xreg_load"
    /\ thr' = [thr EXCEPT ![t] = [pc |-> "xreg_store", priority |-> @.priority,
                                  writer |-> @.writer, ret |-> "none",
                                  loaded |-> xcvr_writer_id_]]
    /\ UNCHANGED << xcvr_vars, node_vars, chassis_vars, server_vars, crashed, call, ret,
                    writes, hist_vars, mapper_vars >>

\* ... and the store of the incremented value.
XcvrRegStore(t) ==
    /\ ~crashed
    /\ thr[t].pc = "xreg_store"
    /\ xcvr_writer_id_' = thr[t].loaded + 1
    /\ thr' = [thr EXCEPT ![t] = [pc |-> "xreg_id", priority |-> @.priority,
                                  writer |-> @.writer, ret |-> "none"]]
    /\ UNCHANGED << xcvr_event_writers_, node_vars, chassis_vars, server_vars, crashed,
                    call, ret, writes, hist_vars, mapper_vars >>

\* xcvr_event_writer.id = xcvr_writer_id_;
XcvrRegId(t) ==
    /\ ~crashed
    /\ thr[t].pc = "xreg_id"
    /\ thr' = [thr EXCEPT ![t] = [pc |-> "xreg_push", priority |-> @.priority,
                                  writer |-> @.writer, ret |-> "none",
                                  id |-> xcvr_writer_id_]]
    /\ UNCHANGED << xcvr_vars, node_vars, chassis_vars, server_vars, crashed, call, ret,
                    writes, hist_vars, mapper_vars >>

\* xcvr_event_writers_.push_back(std::move(xcvr_event_writer));
XcvrRegPush(t, race) ==
    /\ ~crashed
    /\ thr[t].pc = "xreg_push"
    /\ race \in RaceOutcomesFor(t)
    /\ IF race = "crash"
       THEN /\ crashed' = TRUE
            /\ UNCHANGED << xcvr_event_writers_, thr >>
       ELSE /\ xcvr_event_writers_' =
                   Append(xcvr_event_writers_,
                          [writer |-> thr[t].writer, priority |-> thr[t].priority,
                           id |-> thr[t].id])
            /\ thr' = [thr EXCEPT ![t] = [@ EXCEPT !.pc = "xreg_sort"]]
            /\ UNCHANGED crashed
    /\ UNCHANGED << xcvr_writer_id_, node_vars, chassis_vars, server_vars, call, ret,
                    writes, hist_vars, mapper_vars >>

\* std::sort(begin, end, TransceiverEventWriterComp());
XcvrRegSort(t) ==
    /\ ~crashed
    /\ thr[t].pc = "xreg_sort"
    /\ \E sorted \in SortOutcomes(xcvr_event_writers_) : xcvr_event_writers_' = sorted
    /\ thr' = [thr EXCEPT ![t] = [@ EXCEPT !.pc = "xreg_return"]]
    /\ UNCHANGED << xcvr_writer_id_, node_vars, chassis_vars, server_vars, crashed, call,
                    ret, writes, hist_vars, mapper_vars >>

\* return StatusOr<int>(xcvr_writer_id_): the counter is read again.
XcvrRegReturn(t) ==
    /\ ~crashed
    /\ thr[t].pc = "xreg_return"
    /\ thr' = [thr EXCEPT ![t] = [pc |-> "idle", ret |-> "OK",
                                  value |-> xcvr_writer_id_]]
    /\ h_xcvr_regs' = Append(h_xcvr_regs,
                             [id |-> xcvr_writer_id_, priority |-> thr[t].priority,
                              writer |-> thr[t].writer])
    /\ UNCHANGED << xcvr_vars, node_vars, chassis_vars, server_vars, crashed, call, ret,
                    writes, h_xcvr_unreg, h_xcvr_unreg_any, h_node, h_started,
                    mapper_vars >>

(***************************************************************************)
(* The specifications.  Calls are made one at a time, in any order, on a   *)
(* process that has not died.  The transceiver writer list and id counter  *)
(* are read and written by the three transceiver methods only, and by no   *)
(* other method, so the calls are explored in two groups: SpecXcvr makes   *)
(* the transceiver calls, Spec makes all the others.                       *)
(***************************************************************************)
\* The sets of writers whose write fails during one update: none, or one of
\* the writers in the list.
FailedWriterSets ==
    {{}} \cup { {xcvr_event_writers_[i].writer} :
                  i \in { j \in 1..Len(xcvr_event_writers_) :
                              xcvr_event_writers_[j].writer # nullptr } }

NextXcvr ==
    \/ \E priority \in Priorities : RegisterTransceiverEventWriter(priority)
    \/ \E id \in 1..(MaxXcvrWriters + 1) : UnregisterTransceiverEventWriter(id)
    \/ \E request \in TransceiverEventRequests,
          ub \in IF \E i \in 1..Len(xcvr_event_writers_) :
                         xcvr_event_writers_[i].writer = nullptr
                 THEN UBOutcomes ELSE {"continue"},
          failed \in FailedWriterSets :
           TransceiverEventUpdate(request, ub, failed)

Next ==
    \/ \E node_id \in NodeIds, port_id \in PortIds, state_update \in StateUpdates :
           PortStatusUpdate(node_id, port_id, state_update)
    \/ \E source_case \in SourceCases, node_id \in NodeIds, port_id \in PortIds,
          state_update \in StateUpdates :
           DeviceStatusUpdate(source_case, node_id, port_id, state_update)
    \/ \E node_id \in NodeIds, writer \in NodeWriters :
           RegisterNodeEventNotifyWriter(node_id, writer)
    \/ \E node_id \in NodeIds : UnregisterNodeEventNotifyWriter(node_id)
    \/ \E writer \in ChassisWriters : RegisterChassisEventNotifyWriter(writer)
    \/ UnregisterChassisEventNotifyWriter
    \/ \E build_ok \in BOOLEAN, thread_ok \in BOOLEAN : Start(build_ok, thread_ok)
    \/ \E ub \in UBOutcomes : Shutdown(ub)

Spec == Init /\ [][Next]_vars

SpecXcvr == Init /\ [][NextXcvr]_vars

\* One thread pushes pipelines while another makes lookups.
NextMapper ==
    \/ \E p4info \in P4Infos, bfrt_info \in BfRtInfos : PushCall(p4info, bfrt_info)
    \/ PushLock
    \/ PushClear
    \/ BuildMapping
    \/ BuildMappingReverse
    \/ PushReturn
    \/ \E id \in P4Ids : GetCall("GetBfRtId", id)
    \/ \E id \in BfRtIds : GetCall("GetP4InfoId", id)
    \/ GetLock
    \/ GetReturn

SpecMapper == Init /\ [][NextMapper]_vars

\* Threads register node event writers concurrently.
NextNodeConc ==
    \/ \E t \in Threads, node_id \in NodeIds, writer \in NodeWriters :
           NodeRegCall(t, node_id, writer)
    \/ \E t \in Threads : NodeRegFind(t)
    \/ \E t \in Threads, race \in RaceOutcomes : NodeRegEmplace(t, race)

SpecNodeConc == Init /\ [][NextNodeConc]_vars

\* Threads call Start() concurrently.
NextStartConc ==
    \/ \E t \in Threads : StartCall(t)
    \/ \E t \in Threads : StartCheck(t)
    \/ \E t \in Threads, build_ok \in BOOLEAN, race \in RaceOutcomes :
           StartBuild(t, build_ok, race)
    \/ \E t \in Threads : StartNullCheck(t)
    \/ \E t \in Threads, thread_ok \in BOOLEAN : StartSpawn(t, thread_ok)
    \/ \E t \in Threads : StartSet(t)

SpecStartConc == Init /\ [][NextStartConc]_vars

\* Threads register transceiver event writers concurrently.
NextXcvrConc ==
    \/ \E t \in Threads, priority \in Priorities : XcvrRegCall(t, priority)
    \/ \E t \in Threads : XcvrRegLoad(t)
    \/ \E t \in Threads : XcvrRegStore(t)
    \/ \E t \in Threads : XcvrRegId(t)
    \/ \E t \in Threads, race \in RaceOutcomes : XcvrRegPush(t, race)
    \/ \E t \in Threads : XcvrRegSort(t)
    \/ \E t \in Threads : XcvrRegReturn(t)

SpecXcvrConc == Init /\ [][NextXcvrConc]_vars

(***************************************************************************)
(* Properties.                                                             *)
(***************************************************************************)

\* The transceiver subscribers registered and not later unregistered, by the
\* writer each passed.
LiveXcvrWriters ==
    { h_xcvr_regs[k].writer : k \in { i \in 1..Len(h_xcvr_regs) :
                                          h_xcvr_regs[i].id \notin h_xcvr_unreg } }

\* The position in the registration order of the call that passed writer w.
RegOrd(w) == CHOOSE k \in 1..Len(h_xcvr_regs) : h_xcvr_regs[k].writer = w

\* The event a transceiver request carries.
XcvrEvent(request) ==
    [slot |-> request.slot, port |-> request.port, state |-> request.state]

\* The node event a port status call carries.
NodeEvent(c) ==
    [node_id |-> c.node_id, port_id |-> c.port_id, state_update |-> c.state_update]

\* What a port status update for call c must return and write, given the
\* registration history.
PortUpdateExpected(c) ==
    IF h_node[c.node_id] = "none"
    THEN [ret |-> "NOT_FOUND", writes |-> << >>]
    ELSE [ret |-> "OK",
          writes |-> << [node |-> h_node[c.node_id], event |-> NodeEvent(c)] >>]

\* C1: when only registrations were made (no unregister call), a
\* TransceiverEventUpdate writes the event once to every subscriber, higher
\* priority first and, among equal priorities, in registration order.
C1_DeliveryOrder ==
    (call.op = "TransceiverEventUpdate" /\ ~h_xcvr_unreg_any) =>
        /\ ret = "OK"
        /\ Len(writes) = Len(h_xcvr_regs)
        /\ \A k \in 1..Len(h_xcvr_regs) :
               \E i \in 1..Len(writes) : writes[i].xcvr = h_xcvr_regs[k].writer
        /\ \A i \in 1..Len(writes) : writes[i].event = XcvrEvent(call.request)
        /\ \A i, j \in 1..Len(writes) :
               i < j =>
                   LET a == h_xcvr_regs[RegOrd(writes[i].xcvr)]
                       b == h_xcvr_regs[RegOrd(writes[j].xcvr)]
                   IN  \/ a.priority > b.priority
                       \/ /\ a.priority = b.priority
                          /\ RegOrd(writes[i].xcvr) < RegOrd(writes[j].xcvr)

\* C2: the subscriber list holds exactly the subscribers registered and not
\* later unregistered (no leftover entry, none with an emptied sink), and a
\* TransceiverEventUpdate returns having written the event exactly once to
\* each of them and to no one else.
C2_UnregisterRemoves ==
    /\ Len(xcvr_event_writers_) = Cardinality(LiveXcvrWriters)
    /\ \A i \in 1..Len(xcvr_event_writers_) :
           xcvr_event_writers_[i].writer \in LiveXcvrWriters
    /\ call.op = "TransceiverEventUpdate" =>
           /\ ret = "OK"
           /\ Len(writes) = Cardinality(LiveXcvrWriters)
           /\ { writes[i].xcvr : i \in 1..Len(writes) } = LiveXcvrWriters

\* C3: a RegisterNodeEventNotifyWriter for a node id that has a subscriber
\* returns ALREADY_EXISTS and changes nothing in the node registry, and a
\* port status update for a node id that has a subscriber is written to the
\* writer of the registration that succeeded.
C3_DuplicateNodeRegistration ==
    [][ /\ (call'.op = "RegisterNodeEventNotifyWriter"
            /\ h_node[call'.node_id] # "none") =>
               /\ ret' = "ALREADY_EXISTS"
               /\ node_event_notify_writers_' = node_event_notify_writers_
               /\ writes' = << >>
        /\ (call'.op = "HandlePortStatusUpdate"
            /\ h_node[call'.node_id] # "none") =>
               /\ ret' = "OK"
               /\ Len(writes') = 1
               /\ writes'[1].node = h_node[call'.node_id]
      ]_vars

\* C3 witness: a second registration for a node id, passing another writer
\* than the one registered, was rejected.
C3_Witness ==
    /\ call.op = "RegisterNodeEventNotifyWriter"
    /\ ret = "ALREADY_EXISTS"
    /\ h_node[call.node_id] # "none"
    /\ call.writer # h_node[call.node_id]

\* C4: HandlePortStatusUpdate for a node id without a subscriber returns
\* NOT_FOUND and writes to no sink; for a node id with a subscriber it
\* returns OK and makes exactly one write, to that node's writer, of the
\* event carrying the call's node id, port id and status payload.
C4_PortStatusUpdate ==
    call.op = "HandlePortStatusUpdate" =>
        /\ ret = PortUpdateExpected(call).ret
        /\ writes = PortUpdateExpected(call).writes

\* C4 witness: an update was delivered for one node while another node has a
\* different writer registered.
C4_Witness ==
    /\ call.op = "HandlePortStatusUpdate"
    /\ ret = "OK"
    /\ Len(writes) = 1
    /\ call.node_id # call.port_id
    /\ \E n \in NodeIds : /\ n # call.node_id
                          /\ h_node[n] # "none"
                          /\ h_node[n] # h_node[call.node_id]

\* C5: UnregisterNodeEventNotifyWriter returns NOT_FOUND and changes nothing
\* when the node id has no subscriber, and otherwise removes the entry; while
\* a node id has no subscriber a port status update for it returns NOT_FOUND
\* and a registration for it succeeds.
C5_UnregisterNode ==
    [][ /\ call'.op = "UnregisterNodeEventNotifyWriter" =>
               IF h_node[call'.node_id] = "none"
               THEN /\ ret' = "NOT_FOUND"
                    /\ node_event_notify_writers_' = node_event_notify_writers_
               ELSE /\ ret' = "OK"
                    /\ call'.node_id \notin DOMAIN node_event_notify_writers_'
                    /\ \A n \in NodeIds \ {call'.node_id} :
                           /\ n \in DOMAIN node_event_notify_writers_'
                                  <=> n \in DOMAIN node_event_notify_writers_
                           /\ n \in DOMAIN node_event_notify_writers_ =>
                                  node_event_notify_writers_'[n] =
                                      node_event_notify_writers_[n]
        /\ (call'.op = "HandlePortStatusUpdate" /\ h_node[call'.node_id] = "none") =>
               /\ ret' = "NOT_FOUND"
               /\ writes' = << >>
        /\ (call'.op = "RegisterNodeEventNotifyWriter"
            /\ h_node[call'.node_id] = "none") =>
               /\ ret' = "OK"
               /\ node_event_notify_writers_'[call'.node_id] = call'.writer
      ]_vars

\* C5 witness: a subscriber was unregistered while another node keeps its own.
C5_Witness ==
    /\ call.op = "UnregisterNodeEventNotifyWriter"
    /\ ret = "OK"
    /\ h_node[call.node_id] = "none"
    /\ \E n \in NodeIds : h_node[n] # "none"

\* C6: a Start() made after a Start() that returned OK returns ERR_ABORTED
\* and leaves the server, its serving state, the number of servers built and
\* the number of threads created as they were.
C6_SecondStartAborted ==
    [][ (call'.op = "Start" /\ h_started) =>
            /\ ret' = "ERR_ABORTED"
            /\ external_server_' = external_server_
            /\ serving' = serving
            /\ server_builds' = server_builds
            /\ server_threads' = server_threads
            /\ initialized_' = initialized_
      ]_vars

\* C6 witness: a repeated Start() was refused while the server built by the
\* successful one is serving.
C6_Witness ==
    /\ call.op = "Start"
    /\ ret = "ERR_ABORTED"
    /\ h_started
    /\ external_server_ # nullptr
    /\ external_server_ \in serving

\* C7: RegisterChassisEventNotifyWriter with a valid writer succeeds and
\* stores the writer when the chassis slot is empty, and fails leaving the
\* slot as it was when the slot is occupied.
C7_RegisterChassis ==
    [][ (call'.op = "RegisterChassisEventNotifyWriter" /\ call'.writer # "null") =>
            IF chassis_event_notify_writer_ = "null"
            THEN /\ ret' = "OK"
                 /\ chassis_event_notify_writer_' = call'.writer
            ELSE /\ ret' # "OK"
                 /\ chassis_event_notify_writer_' = chassis_event_notify_writer_
      ]_vars

\* C8: UnregisterTransceiverEventWriter with an id no registration returned
\* returns OK and leaves the subscriber list, members and order, unchanged.
C8_UnregisterUnknownId ==
    [][ (call'.op = "UnregisterTransceiverEventWriter"
         /\ \A k \in 1..Len(h_xcvr_regs) : h_xcvr_regs[k].id # call'.id) =>
            /\ ret' = "OK"
            /\ xcvr_event_writers_' = xcvr_event_writers_
            /\ xcvr_writer_id_' = xcvr_writer_id_
      ]_vars

\* C8 witness: an unregister with a never returned id was made on a list of
\* two or more subscribers, none of them unregistered.
C8_Witness ==
    /\ call.op = "UnregisterTransceiverEventWriter"
    /\ \A k \in 1..Len(h_xcvr_regs) : h_xcvr_regs[k].id # call.id
    /\ ret = "OK"
    /\ h_xcvr_unreg = {}
    /\ Len(xcvr_event_writers_) >= 2

\* C9: UnregisterChassisEventNotifyWriter made while no chassis subscriber is
\* registered returns NOT_FOUND.
C9_UnregisterChassisNotFound ==
    [][ (call'.op = "UnregisterChassisEventNotifyWriter"
         /\ chassis_event_notify_writer_ = "null") =>
            ret' = "NOT_FOUND"
      ]_vars

\* C10: a DeviceStatusUpdate whose source is not a port returns UNIMPLEMENTED,
\* writes to no sink and changes no subscriber registry; one whose source is
\* a port returns and writes what a port status update does for the node id
\* and port id of the port descriptor.
C10_DeviceStatusUpdate ==
    [][ call'.op = "DeviceStatusUpdate" =>
            /\ node_event_notify_writers_' = node_event_notify_writers_
            /\ chassis_event_notify_writer_' = chassis_event_notify_writer_
            /\ xcvr_event_writers_' = xcvr_event_writers_
            /\ IF call'.source_case = "kPort"
               THEN /\ ret' = PortUpdateExpected(call').ret
                    /\ writes' = PortUpdateExpected(call').writes
               ELSE /\ ret' = "UNIMPLEMENTED"
                    /\ writes' = << >>
      ]_vars

\* C10 witness: an update with a node source was refused although the node
\* it names has a subscriber.
C10_Witness ==
    /\ call.op = "DeviceStatusUpdate"
    /\ call.source_case = "kNode"
    /\ ret = "UNIMPLEMENTED"
    /\ h_node[call.node_id] # "none"

\* C11: a TransceiverEventUpdate returns OK, and it has attempted a write to
\* every subscriber registered and not unregistered, those that come after a
\* subscriber whose write failed or timed out included.
C11_BestEffortFanOut ==
    call.op = "TransceiverEventUpdate" =>
        /\ ret = "OK"
        /\ \A w \in LiveXcvrWriters :
               \E i \in 1..Len(writes) : writes[i].xcvr = w

\* C12: every RegisterTransceiverEventWriter call returns OK with an id
\* greater than every id returned before it, the first being 1, whatever
\* unregistrations were made in between.
C12_IdsNeverReused ==
    /\ call.op = "RegisterTransceiverEventWriter" => ret = "OK"
    /\ Len(h_xcvr_regs) >= 1 => h_xcvr_regs[1].id = 1
    /\ \A j, k \in 1..Len(h_xcvr_regs) :
           j < k => h_xcvr_regs[j].id < h_xcvr_regs[k].id

\* C12 witness: a registration was made after a subscriber with a returned
\* id had been unregistered.
C12_Witness ==
    /\ call.op = "RegisterTransceiverEventWriter"
    /\ h_xcvr_unreg # {}
    /\ Len(h_xcvr_regs) >= 2
    /\ h_xcvr_regs[Len(h_xcvr_regs)].id \notin h_xcvr_unreg

\* C13: in the state a successful PushPipelineInfo returns in, for every
\* object present in the P4Info and in the BfRt metadata under the same name
\* GetBfRtId and GetP4InfoId are inverse to each other, and a P4Info id or
\* BfRt id that is not in the pushed source fails its lookup with NOT_FOUND.
C13_RoundTrip ==
    [][ (push.pc = "build" /\ push'.pc = "idle" /\ push'.ret = "OK") =>
            LET p4info == push.p4info
                tables == push.bfrt_info.tables
                both == { l \in DOMAIN p4info : p4info[l] \in DOMAIN tables }
            IN  /\ \A l \in both :
                       /\ GetBfRtId(l)' = [status |-> "OK", value |-> tables[p4info[l]]]
                       /\ GetP4InfoId(GetBfRtId(l).value)' = [status |-> "OK", value |-> l]
                /\ \A b \in { tables[p4info[l]] : l \in both } :
                       /\ GetP4InfoId(b)'.status = "OK"
                       /\ GetBfRtId(GetP4InfoId(b).value)' = [status |-> "OK", value |-> b]
                /\ \A l \in P4Ids \ DOMAIN p4info : GetBfRtId(l)'.status = "NOT_FOUND"
                /\ \A b \in BfRtIds \ { tables[n] : n \in DOMAIN tables } :
                       GetP4InfoId(b)'.status = "NOT_FOUND"
      ]_vars

\* C13 witness: a push that replaced an earlier mapping returned OK with two
\* objects mapped, and a lookup made after it found its id.
C13_Witness ==
    /\ push.pc = "idle"
    /\ push.ret = "OK"
    /\ Cardinality(DOMAIN p4info_to_bfrt_id_) = 2
    /\ reader.pc = "idle"
    /\ reader.ret.status = "OK"
    /\ reader.method = "GetP4InfoId"
    /\ reader.id \in DOMAIN bfrt_to_p4info_id_
    /\ reader.ret.value = bfrt_to_p4info_id_[reader.id]

\* C14: a lookup that holds lock_ sees the two maps complete: as the last
\* completed push left them, or as the push being made leaves them, never a
\* mix and never one direction of a pair without the other.
C14_NoPartialMapping ==
    reader.pc = "locked" =>
        LET seen == [p4info_to_bfrt |-> p4info_to_bfrt_id_,
                     bfrt_to_p4info |-> bfrt_to_p4info_id_]
        IN  \/ seen = h_mapping
            \/ /\ push.pc # "idle"
               /\ ~push.bfrt_info.null
               /\ seen = ExpectedMapping(push.p4info, push.bfrt_info)

\* C14 witness: a lookup holds lock_ while a push that changes a non-empty
\* mapping is waiting for it.
C14_Witness ==
    /\ reader.pc = "locked"
    /\ push.pc = "acquire"
    /\ ~push.bfrt_info.null
    /\ h_mapping.p4info_to_bfrt # EmptyIdMap
    /\ ExpectedMapping(push.p4info, push.bfrt_info) # h_mapping

\* C15: when two RegisterNodeEventNotifyWriter calls for the same node id,
\* both made while the node id had no subscriber, have returned, one returned
\* OK and the other ALREADY_EXISTS, and the writer bound to the node id is the
\* one passed by the call that returned OK.
C15_ConcurrentNodeRegistration ==
    \A t, u \in Threads :
        (/\ t # u
         /\ thr[t].pc = "idle" /\ thr[t].ret # "none"
         /\ thr[u].pc = "idle" /\ thr[u].ret # "none"
         /\ thr[t].node_id = thr[u].node_id
         /\ thr[t].absent_at_call /\ thr[u].absent_at_call) =>
            /\ {thr[t].ret, thr[u].ret} = {"OK", "ALREADY_EXISTS"}
            /\ thr[t].ret = "OK" =>
                   node_event_notify_writers_[thr[t].node_id] = thr[t].writer

\* C16: whatever the interleaving of concurrent Start() calls, at most one
\* serving thread is ever spawned and no two calls return OK.
C16_ConcurrentStart ==
    /\ server_threads <= 1
    /\ \A t, u \in Threads : t # u => ~(thr[t].ret = "OK" /\ thr[u].ret = "OK")

\* C17: whatever the interleaving of concurrent
\* RegisterTransceiverEventWriter calls, the ids they have returned are
\* pairwise distinct, and the id returned by a call is the id stored in the
\* entry that holds the writer the call passed.
C17_ConcurrentXcvrRegistration ==
    /\ \A j, k \in 1..Len(h_xcvr_regs) :
           j # k => h_xcvr_regs[j].id # h_xcvr_regs[k].id
    /\ \A k \in 1..Len(h_xcvr_regs) : \A i \in 1..Len(xcvr_event_writers_) :
           xcvr_event_writers_[i].writer = h_xcvr_regs[k].writer =>
               xcvr_event_writers_[i].id = h_xcvr_regs[k].id

\* C18: every Shutdown() call, including one made before any Start() and one
\* made after a Start() that failed to build the endpoint, finds an endpoint
\* in external_server_: it never calls through a null external_server_.
C18_ShutdownHasEndpoint ==
    [][call'.op = "Shutdown" => external_server_ # nullptr]_vars

\* C19: in every reachable state, with Start() called from any number of
\* threads, initialized_ is set only when a Start() has returned OK, and
\* whenever it is set external_server_ holds an endpoint that was built and a
\* serving thread was spawned.
C19_StartedImpliesEndpoint ==
    initialized_ =>
        /\ h_started
        /\ external_server_ # nullptr
        /\ server_builds >= 1
        /\ server_threads >= 1

====
